---- MODULE Spec2Model ----
(***************************************************************************)
(* The Bau editor support: the lexical-scope grammar bau.tmLanguage.json   *)
(* driven by the line scanner of spec.md 4.2/4.3, and the activation of    *)
(* the VS Code extension that starts the language server.                  *)
(*                                                                         *)
(* A line is a sequence of one-character strings.  Positions are 1-based;  *)
(* a match is [s, e) with e exclusive.  The regular expressions of the     *)
(* grammar are translated character by character (greedy, leftmost, with   *)
(* the backtracking alternatives that can succeed).                        *)
(***************************************************************************)
EXTENDS Integers, Sequences, FiniteSets, TLC

VARIABLES phase, lineNo, line, cursor, regionStack, entryStack,
          scopedRanges, steps, unclosed,
          configuration, entryPoint, activations

tokVars == <<phase, lineNo, line, cursor, regionStack, entryStack,
             scopedRanges, steps, unclosed>>
extVars == <<configuration, entryPoint, activations>>
vars == <<phase, lineNo, line, cursor, regionStack, entryStack,
          scopedRanges, steps, unclosed,
          configuration, entryPoint, activations>>

(***************************************************************************)
(* Bounds of the model.                                                    *)
(***************************************************************************)
MaxFrags == 2
MaxLines == 2
MaxActivations == 3

(***************************************************************************)
(* Character classes of the regular expressions.                           *)
(***************************************************************************)
Digits == {"0", "1", "2", "3", "4", "5", "6", "7", "8", "9"}
Letters == {"a", "b", "c", "d", "e", "f", "g", "h", "i", "j", "k", "l", "m",
            "n", "o", "p", "q", "r", "s", "t", "u", "v", "w", "x", "y", "z",
            "A", "B", "C", "D", "E", "F", "G", "H", "I", "J", "K", "L", "M",
            "N", "O", "P", "Q", "R", "S", "T", "U", "V", "W", "X", "Y", "Z"}

\* \d
IsDigit(c) == c \in Digits
\* [a-zA-Z_]
IsIdStart(c) == c \in Letters \cup {"_"}
\* \w and [a-zA-Z0-9_]
IsWordChar(c) == c \in Letters \cup Digits \cup {"_"}
\* \s
IsSpace(c) == c \in {" ", "\t"}

NoMatch == [s |-> 0, e |-> 0, caps |-> <<>>]
NoGroup == <<0, 0>>

DigitAt(l, i) == i >= 1 /\ i <= Len(l) /\ IsDigit(l[i])
IdStartAt(l, i) == i >= 1 /\ i <= Len(l) /\ IsIdStart(l[i])
WordAt(l, i) == i >= 1 /\ i <= Len(l) /\ IsWordChar(l[i])
SpaceAt(l, i) == i >= 1 /\ i <= Len(l) /\ IsSpace(l[i])

\* \b at position i: exactly one of the characters around it is a word character
Boundary(l, i) == WordAt(l, i - 1) # WordAt(l, i)

\* the literal text w at position i
StartsWith(l, i, w) ==
    /\ i >= 1
    /\ i + Len(w) - 1 <= Len(l)
    /\ SubSeq(l, i, i + Len(w) - 1) = w

\* the element of a one-element set
The(S) == CHOOSE x \in S : TRUE
\* the smallest number of a non-empty set (T \in {S} evaluates S once)
Min(S) == The({The({x \in T : \A y \in T : x <= y}) : T \in {S}})

\* greedy runs: the position after the longest run of the class starting at i
DigitRun(l, i) == Min({j \in i..(Len(l) + 1) : ~DigitAt(l, j)})
WordRun(l, i) == Min({j \in i..(Len(l) + 1) : ~WordAt(l, j)})
SpaceRun(l, i) == Min({j \in i..(Len(l) + 1) : ~SpaceAt(l, j)})

\* \b(w1|w2|...)\b at position i: the first alternative that matches with a
\* boundary on both sides; group 1 is the alternative
AlternationAt(l, i, words) ==
    LET ok == {k \in 1..Len(words) :
                  StartsWith(l, i, words[k]) /\ Boundary(l, i + Len(words[k]))}
    IN IF Boundary(l, i) /\ ok # {}
       THEN [s |-> i, e |-> i + Len(words[Min(ok)]),
             caps |-> << <<i, i + Len(words[Min(ok)])>> >>]
       ELSE NoMatch

(***************************************************************************)
(* The regular expressions of bau.tmLanguage.json, each anchored at i.     *)
(***************************************************************************)
\* "//.*$"
comment_match(l, i) ==
    IF StartsWith(l, i, <<"/", "/">>)
    THEN [s |-> i, e |-> Len(l) + 1, caps |-> <<>>]
    ELSE NoMatch

\* "\\b(\\d+(\\.\\d+)?)\\b"
number_match(l, i) ==
    IF ~(DigitAt(l, i) /\ Boundary(l, i)) THEN NoMatch
    ELSE LET d1 == DigitRun(l, i)
             d2 == DigitRun(l, d1 + 1)
         IN IF StartsWith(l, d1, <<".">>) /\ DigitAt(l, d1 + 1) /\ Boundary(l, d2)
            THEN [s |-> i, e |-> d2, caps |-> <<<<i, d2>>, <<d1, d2>>>>]
            ELSE IF Boundary(l, d1)
            THEN [s |-> i, e |-> d1, caps |-> <<<<i, d1>>, NoGroup>>]
            ELSE NoMatch

\* "\""
string_begin(l, i) ==
    IF StartsWith(l, i, <<"\"">>)
    THEN [s |-> i, e |-> i + 1, caps |-> <<>>]
    ELSE NoMatch

\* "\""
string_end(l, i) ==
    IF StartsWith(l, i, <<"\"">>)
    THEN [s |-> i, e |-> i + 1, caps |-> <<>>]
    ELSE NoMatch

\* "\\\\."
string_escape_match(l, i) ==
    IF StartsWith(l, i, <<"\\">>) /\ i + 1 <= Len(l)
    THEN [s |-> i, e |-> i + 2, caps |-> <<>>]
    ELSE NoMatch

\* "\\b(true|false)\\b"
constant_match(l, i) ==
    AlternationAt(l, i, << <<"t", "r", "u", "e">>, <<"f", "a", "l", "s", "e">> >>)

\* "\\b(void|int|float|string|bool)\\b"
type_match(l, i) ==
    AlternationAt(l, i, << <<"v", "o", "i", "d">>, <<"i", "n", "t">>,
                           <<"f", "l", "o", "a", "t">>,
                           <<"s", "t", "r", "i", "n", "g">>,
                           <<"b", "o", "o", "l">> >>)

\* "\\b(\\+|-|\\*|/|%|!|==|!=|<|<=|>|>=|&&|\\|\\|)\\b"
operator_match(l, i) ==
    AlternationAt(l, i, << <<"+">>, <<"-">>, <<"*">>, <<"/">>, <<"%">>, <<"!">>,
                           <<"=", "=">>, <<"!", "=">>, <<"<">>, <<"<", "=">>,
                           <<">">>, <<">", "=">>, <<"&", "&">>, <<"|", "|">> >>)

\* "\\b(if|else|loop|while|return|continue|break)\\b"
keyword_match(l, i) ==
    AlternationAt(l, i, << <<"i", "f">>, <<"e", "l", "s", "e">>,
                           <<"l", "o", "o", "p">>, <<"w", "h", "i", "l", "e">>,
                           <<"r", "e", "t", "u", "r", "n">>,
                           <<"c", "o", "n", "t", "i", "n", "u", "e">>,
                           <<"b", "r", "e", "a", "k">> >>)

\* "(fn)\\s+([a-zA-Z_][a-zA-Z0-9_]*)(\\(\\))(\\s*->\\s*)([a-zA-Z_][a-zA-Z0-9_]*)"
function_declaration_begin(l, i) ==
    IF ~(StartsWith(l, i, <<"f", "n">>) /\ SpaceAt(l, i + 2)) THEN NoMatch
    ELSE LET n1 == SpaceRun(l, i + 2)
             n2 == WordRun(l, n1)
             p2 == n2 + 2
             a1 == SpaceRun(l, p2)
             t1 == SpaceRun(l, a1 + 2)
             t2 == WordRun(l, t1)
         IN IF /\ IdStartAt(l, n1)
               /\ StartsWith(l, n2, <<"(", ")">>)
               /\ StartsWith(l, a1, <<"-", ">">>)
               /\ IdStartAt(l, t1)
            THEN [s |-> i, e |-> t2,
                  caps |-> << <<i, i + 2>>, <<n1, n2>>, <<n2, p2>>,
                              <<p2, t1>>, <<t1, t2>> >>]
            ELSE NoMatch

\* "\\}": the closing brace instead of the opening one
function_declaration_end_closing(l, i) ==
    IF StartsWith(l, i, <<"}">>)
    THEN [s |-> i, e |-> i + 1, caps |-> <<>>]
    ELSE NoMatch

\* "\\{"
function_declaration_end(l, i) ==
    IF StartsWith(l, i, <<"{">>)
    THEN [s |-> i, e |-> i + 1, caps |-> <<>>]
    ELSE NoMatch

\* "(let)\\s+([a-zA-Z_][a-zA-Z0-9_]*)\\s+([a-zA-Z_][a-zA-Z0-9_]*)"
let_statement_begin(l, i) ==
    IF ~(StartsWith(l, i, <<"l", "e", "t">>) /\ SpaceAt(l, i + 3)) THEN NoMatch
    ELSE LET t1 == SpaceRun(l, i + 3)
             t2 == WordRun(l, t1)
             v1 == SpaceRun(l, t2)
             v2 == WordRun(l, v1)
         IN IF IdStartAt(l, t1) /\ SpaceAt(l, t2) /\ IdStartAt(l, v1)
            THEN [s |-> i, e |-> v2,
                  caps |-> << <<i, i + 3>>, <<t1, t2>>, <<v1, v2>> >>]
            ELSE NoMatch

\* "==": the equality sign instead of the assignment sign
let_statement_end_equality(l, i) ==
    IF StartsWith(l, i, <<"=", "=">>)
    THEN [s |-> i, e |-> i + 2, caps |-> <<>>]
    ELSE NoMatch

\* "(?==)": an end that matches the empty text before the "="
let_statement_end_empty(l, i) ==
    IF StartsWith(l, i, <<"=">>)
    THEN [s |-> i, e |-> i, caps |-> <<>>]
    ELSE NoMatch

\* "="
let_statement_end(l, i) ==
    IF StartsWith(l, i, <<"=">>)
    THEN [s |-> i, e |-> i + 1, caps |-> <<>>]
    ELSE NoMatch

\* the regular expression a grammar entry names, anchored at i
Regex(id, l, i) ==
    CASE id = "comment.match" -> comment_match(l, i)
      [] id = "number.match" -> number_match(l, i)
      [] id = "string.begin" -> string_begin(l, i)
      [] id = "string.end" -> string_end(l, i)
      [] id = "string.escape.match" -> string_escape_match(l, i)
      [] id = "constant.match" -> constant_match(l, i)
      [] id = "type.match" -> type_match(l, i)
      [] id = "operator.match" -> operator_match(l, i)
      [] id = "keyword.match" -> keyword_match(l, i)
      [] id = "function-declaration.begin" -> function_declaration_begin(l, i)
      [] id = "function-declaration.end" -> function_declaration_end(l, i)
      [] id = "let-statement.begin" -> let_statement_begin(l, i)
      [] id = "let-statement.end" -> let_statement_end(l, i)
      [] OTHER -> NoMatch

(***************************************************************************)
(* The grammar: the repository's rule groups and the top-level list.  A    *)
(* pattern entry is an include of a rule group or a match with its scope   *)
(* name; a rule group is a begin/end rule (begin # "") or a pattern list.  *)
(***************************************************************************)
Include(g) == [include |-> g, name |-> "", match |-> ""]
Match(scope, regex) == [include |-> "", name |-> scope, match |-> regex]
Capture(group, scope) == [group |-> group, name |-> scope]
PatternGroup(ps) ==
    [name |-> "", begin |-> "", end |-> "", beginCaptures |-> <<>>, patterns |-> ps]

\* the top-level list with number and string after keyword
patterns_reordered ==
    << Include("comment"), Include("function-declaration"),
       Include("let-statement"), Include("constant"), Include("keyword"),
       Include("number"), Include("string") >>

\* the top-level list with the operator group included
patterns_with_operator ==
    << Include("comment"), Include("function-declaration"),
       Include("let-statement"), Include("number"), Include("string"),
       Include("constant"), Include("keyword"), Include("operator") >>

patterns ==
    << Include("comment"), Include("function-declaration"),
       Include("let-statement"), Include("number"), Include("string"),
       Include("constant"), Include("keyword") >>

\* the comment written as a begin/end rule
comment_region ==
    [name |-> "comment.line.bau",
     begin |-> "comment.match", end |-> "comment.match",
     beginCaptures |-> <<>>, patterns |-> <<>>]

comment == PatternGroup(<< Match("comment.line.bau", "comment.match") >>)

number == PatternGroup(<< Match("constant.numeric.bau", "number.match") >>)

\* the string with the let head among its inner patterns
string_nested ==
    [name |-> "string.quoted.double.bau",
     begin |-> "string.begin", end |-> "string.end",
     beginCaptures |-> <<>>,
     patterns |-> << Match("constant.character.escape.bau", "string.escape.match"),
                     Include("let-statement") >>]

string ==
    [name |-> "string.quoted.double.bau",
     begin |-> "string.begin", end |-> "string.end",
     beginCaptures |-> <<>>,
     patterns |-> << Match("constant.character.escape.bau", "string.escape.match") >>]

constant == PatternGroup(<< Match("constant.language.bau", "constant.match") >>)

type == PatternGroup(<< Match("storage.type.bau", "type.match") >>)

operator == PatternGroup(<< Match("keyword.operator.bau", "operator.match") >>)

keyword == PatternGroup(<< Match("keyword.control.bau", "keyword.match") >>)

\* the function head with comments among its inner patterns
function_declaration_with_comment ==
    [name |-> "",
     begin |-> "function-declaration.begin", end |-> "function-declaration.end",
     beginCaptures |-> << Capture(1, "keyword.other.fn.bau"),
                          Capture(2, "entity.name.function.bau"),
                          Capture(5, "entity.name.type.bau") >>,
     patterns |-> << Include("comment") >>]

function_declaration ==
    [name |-> "",
     begin |-> "function-declaration.begin", end |-> "function-declaration.end",
     beginCaptures |-> << Capture(1, "keyword.other.fn.bau"),
                          Capture(2, "entity.name.function.bau"),
                          Capture(5, "entity.name.type.bau") >>,
     patterns |-> <<>>]

\* the let head with the scopes of groups 2 and 3 exchanged
let_statement_swapped ==
    [name |-> "",
     begin |-> "let-statement.begin", end |-> "let-statement.end",
     beginCaptures |-> << Capture(1, "keyword.other.let.bau"),
                          Capture(2, "variable.name.bau"),
                          Capture(3, "entity.name.type.bau") >>,
     patterns |-> <<>>]

let_statement ==
    [name |-> "",
     begin |-> "let-statement.begin", end |-> "let-statement.end",
     beginCaptures |-> << Capture(1, "keyword.other.let.bau"),
                          Capture(2, "entity.name.type.bau"),
                          Capture(3, "variable.name.bau") >>,
     patterns |-> <<>>]

RuleGroups == {"comment", "number", "string", "constant", "type", "operator",
               "keyword", "function-declaration", "let-statement"}

repository(g) ==
    CASE g = "comment" -> comment
      [] g = "number" -> number
      [] g = "string" -> string
      [] g = "constant" -> constant
      [] g = "type" -> type
      [] g = "operator" -> operator
      [] g = "keyword" -> keyword
      [] g = "function-declaration" -> function_declaration
      [] g = "let-statement" -> let_statement

(***************************************************************************)
(* The scanner (spec.md 4.2).                                              *)
(***************************************************************************)
\* Repository.resolve applied through a pattern list: includes are replaced
\* by what they name; a begin/end rule becomes one "begin" candidate
RECURSIVE Resolve(_)
Resolve(ps) ==
    IF ps = <<>> THEN <<>>
    ELSE LET p == Head(ps)
             here ==
               IF p.include = ""
               THEN << [kind |-> "match", rule |-> "", name |-> p.name, regex |-> p.match] >>
               ELSE IF repository(p.include).begin # ""
               THEN << [kind |-> "begin", rule |-> p.include, name |-> "",
                        regex |-> repository(p.include).begin] >>
               ELSE Resolve(repository(p.include).patterns)
         IN here \o Resolve(Tail(ps))

\* step 1: the active pattern list; inside a region the pop-check comes first
ActivePatterns(stack) ==
    IF stack = <<>> THEN Resolve(patterns)
    ELSE LET top == stack[Len(stack)]
         IN << [kind |-> "end", rule |-> top, name |-> "",
                regex |-> repository(top).end] >>
            \o Resolve(repository(top).patterns)

\* the leftmost match of a regular expression at or after the cursor
Search(id, l, from) ==
    The({ IF at = {} THEN NoMatch ELSE Regex(id, l, Min(at)) :
          at \in {{i \in from..Len(l) : Regex(id, l, i) # NoMatch}} })

\* the patterns of the list that match at or after the cursor
Candidates(list, l, from) ==
    {c \in {[index |-> k, kind |-> list[k].kind, rule |-> list[k].rule,
             name |-> list[k].name, m |-> Search(list[k].regex, l, from)] :
            k \in DOMAIN list} : c.m # NoMatch}

\* step 2: the smallest start offset wins, then the declared order
Select(found) ==
    IF found = {}
    THEN [index |-> 0, kind |-> "none", rule |-> "", name |-> "", m |-> NoMatch]
    ELSE CHOOSE c \in found :
           \A c2 \in found : \/ c.m.s < c2.m.s
                             \/ (c.m.s = c2.m.s /\ c.index <= c2.index)

\* steps 1 and 2 at one cursor position: the winning pattern and its match
Scan(stack, l, from) ==
    The(UNION {{Select(found) : found \in {Candidates(list, l, from)}} :
               list \in {ActivePatterns(stack)}})

\* step 4: one range per capture group that beginCaptures names and that matched
RECURSIVE CaptureRanges(_, _)
CaptureRanges(captures, m) ==
    IF captures = <<>> THEN <<>>
    ELSE LET c == Head(captures)
             g == m.caps[c.group]
         IN (IF c.group <= Len(m.caps) /\ g # NoGroup
             THEN << [startOffset |-> g[1], endOffset |-> g[2], scopeName |-> c.name] >>
             ELSE <<>>)
            \o CaptureRanges(Tail(captures), m)

Push(stack, rule) == Append(stack, rule)
Pop(stack) == SubSeq(stack, 1, Len(stack) - 1)

(***************************************************************************)
(* Input lines: up to MaxFrags fragments of Bau text put one after the     *)
(* other, and the literal lines of spec.md 8.                              *)
(***************************************************************************)
Fragments ==
    { <<"/", "/">>,
      <<"l", "e", "t", " ", "t", " ", "x">>,
      <<"f", "n", " ", "f", "(", ")", "-", ">", "t">>,
      <<"=">>, <<"{">>, <<"4">>, <<".">>, <<"\"">>, <<"\\">>,
      <<"t", "r", "u", "e">>, <<"i", "f">>, <<" ">>, <<"&", "&">> }

RECURSIVE LinesOf(_)
LinesOf(n) ==
    IF n = 0 THEN {<<>>}
    ELSE LET shorter == LinesOf(n - 1)
         IN shorter \cup {p \o f : p \in shorter, f \in Fragments}

CommentLine == <<"/", "/", " ", "h", "e", "l", "l", "o">>
FnLine == <<"f", "n", " ", "m", "a", "i", "n", "(", ")", " ", "-", ">", " ",
            "i", "n", "t", " ", "{">>
LetLine == <<"l", "e", "t", " ", "i", "n", "t", " ", "x", " ", "=">>
IntLine == <<"4", "2">>
FloatLine == <<"3", ".", "1", "4">>
BoolLine == <<"t", "r", "u", "e", " ", "&", "&", " ", "f", "a", "l", "s", "e">>

ScenarioLines == {CommentLine, FnLine, LetLine, IntLine, FloatLine, BoolLine}

\* an operator between two words, and a function head inside a let head
OperatorLine == <<"t", "r", "u", "e", "&", "&", "f", "a", "l", "s", "e">>
OverlapLine == <<"l", "e", "t", " ", "f", "n", " ", "f", "(", ")", "-", ">", "t">>
ProbeLines == {OperatorLine, OverlapLine}

Lines == LinesOf(MaxFrags) \cup ScenarioLines \cup ProbeLines

(***************************************************************************)
(* The document tokenizer (spec.md 4.3) driving the scanner one matched    *)
(* step at a time.  steps records the matched steps of the line; unclosed  *)
(* counts the begin-matches of the document with no end-match yet.         *)
(***************************************************************************)
Step(w, from, stack) ==
    [kind |-> w.kind, rule |-> w.rule, name |-> w.name, index |-> w.index,
     from |-> from, s |-> w.m.s, e |-> w.m.e, stack |-> stack]

extInit ==
    /\ configuration = [disableLanguageServer |-> FALSE,
                        languageServerExecutablePath |-> "bau-language-server"]
    /\ entryPoint = "out/extension.js"
    /\ activations = <<>>

tokInit ==
    /\ phase = "idle"
    /\ lineNo = 0
    /\ line = <<>>
    /\ cursor = 1
    /\ regionStack = <<>>
    /\ entryStack = <<>>
    /\ scopedRanges = <<>>
    /\ steps = <<>>
    /\ unclosed = 0

Init == tokInit /\ extInit

\* tokenize: hand the next line and the stack of the previous one to scanLine
StartLine(l) ==
    /\ phase = "idle"
    /\ lineNo < MaxLines
    /\ phase' = "scanning"
    /\ lineNo' = lineNo + 1
    /\ line' = l
    /\ cursor' = 1
    /\ entryStack' = regionStack
    /\ scopedRanges' = <<>>
    /\ steps' = <<>>
    /\ UNCHANGED <<regionStack, unclosed, extVars>>

\* step 3: a SimpleMatch wins
SimpleMatchStep ==
    /\ phase = "scanning"
    /\ \E w \in {Scan(regionStack, line, cursor)} :
          /\ w.kind = "match"
          /\ scopedRanges' = Append(scopedRanges,
                 [startOffset |-> w.m.s, endOffset |-> w.m.e, scopeName |-> w.name])
          /\ cursor' = w.m.e
          /\ steps' = Append(steps, Step(w, cursor, regionStack))
    /\ UNCHANGED <<phase, lineNo, line, regionStack, entryStack, unclosed, extVars>>

\* step 4: a begin-pattern wins
BeginStep ==
    /\ phase = "scanning"
    /\ \E w \in {Scan(regionStack, line, cursor)} :
          /\ w.kind = "begin"
          /\ scopedRanges' = scopedRanges
                 \o CaptureRanges(repository(w.rule).beginCaptures, w.m)
          /\ regionStack' = Push(regionStack, w.rule)
          /\ cursor' = w.m.e
          /\ steps' = Append(steps, Step(w, cursor, regionStack))
    /\ unclosed' = unclosed + 1
    /\ UNCHANGED <<phase, lineNo, line, entryStack, extVars>>

\* step 6: the end of the innermost region wins
EndStep ==
    /\ phase = "scanning"
    /\ \E w \in {Scan(regionStack, line, cursor)} :
          /\ w.kind = "end"
          /\ regionStack' = Pop(regionStack)
          /\ cursor' = w.m.e
          /\ steps' = Append(steps, Step(w, cursor, regionStack))
    /\ unclosed' = unclosed - 1
    /\ UNCHANGED <<phase, lineNo, line, entryStack, scopedRanges, extVars>>

\* step 5: nothing matches in the rest of the line; scanLine returns the
\* ranges and the stack
ReturnLine ==
    /\ phase = "scanning"
    /\ Scan(regionStack, line, cursor).kind = "none"
    /\ phase' = "returned"
    /\ UNCHANGED <<lineNo, line, cursor, regionStack, entryStack, scopedRanges,
                   steps, unclosed, extVars>>

\* tokenize keeps the returned stack for the next line
NextLine ==
    /\ phase = "returned"
    /\ phase' = "idle"
    /\ line' = <<>>
    /\ cursor' = 1
    /\ entryStack' = regionStack
    /\ scopedRanges' = <<>>
    /\ steps' = <<>>
    /\ UNCHANGED <<lineNo, regionStack, unclosed, extVars>>

\* tokenize returns after the last line; the stack is discarded by the caller
EndDocument ==
    /\ phase \in {"idle", "returned"}
    /\ phase' = "done"
    /\ UNCHANGED <<lineNo, line, cursor, regionStack, entryStack, scopedRanges,
                   steps, unclosed, extVars>>

Next ==
    \/ \E l \in Lines : StartLine(l)
    \/ SimpleMatchStep
    \/ BeginStep
    \/ EndStep
    \/ ReturnLine
    \/ NextLine
    \/ EndDocument

Spec == Init /\ [][Next]_vars

(***************************************************************************)
(* The VS Code extension.  The repository holds three activate functions:  *)
(* src/extension.ts, out/extension.js (the "main" of package.json, whose   *)
(* TypeScript source is unnamed/part_000) and the compiled                 *)
(* unnamed/part_001.  entryPoint is the one the extension host loaded.     *)
(* activations records, per activation, the setting read and the client    *)
(* started ("" when none was).                                             *)
(***************************************************************************)
EntryPoints == {"src/extension.ts", "out/extension.js", "unnamed/part_001"}
ExecutablePaths == {"", "bau-language-server", "/opt/bau/bau-language-server"}

\* package.json contributes.configuration: the defaults of the settings
DefaultConfiguration ==
    [disableLanguageServer |-> FALSE,
     languageServerExecutablePath |-> "bau-language-server"]

NoClient == [command |-> "", args |-> <<>>]

\* new LanguageClient('bau-language-server', serverOptions, clientOptions); client.start()
StartClient(command, args) == [command |-> command, args |-> args]

\* startLanguageServer(context)
startLanguageServer(config) ==
    StartClient(IF config.languageServerExecutablePath = ""
                THEN "bau-language-server"
                ELSE config.languageServerExecutablePath, <<>>)

\* activate(context) of out/extension.js
activate_out(config) ==
    IF ~config.disableLanguageServer THEN startLanguageServer(config) ELSE NoClient

\* activate(context) of src/extension.ts
activate_src(config) == StartClient("bau", <<"language-server">>)

\* activate(context) of unnamed/part_001
activate_part_001(config) ==
    StartClient(IF config.languageServerExecutablePath = ""
                THEN "bau-language-server"
                ELSE config.languageServerExecutablePath, <<>>)

Activation(client) ==
    [disabled |-> configuration.disableLanguageServer, client |-> client]

extInitAny ==
    /\ configuration = DefaultConfiguration
    /\ entryPoint \in EntryPoints
    /\ activations = <<>>

\* the user edits a setting of the "Bau" section
SetConfiguration(d, path) ==
    /\ configuration' = [disableLanguageServer |-> d,
                         languageServerExecutablePath |-> path]
    /\ configuration' # configuration
    /\ UNCHANGED <<entryPoint, activations, tokVars>>

ActivateOut ==
    /\ entryPoint = "out/extension.js"
    /\ Len(activations) < MaxActivations
    /\ activations' = Append(activations, Activation(activate_out(configuration)))
    /\ UNCHANGED <<configuration, entryPoint, tokVars>>

ActivateSrc ==
    /\ entryPoint = "src/extension.ts"
    /\ Len(activations) < MaxActivations
    /\ activations' = Append(activations, Activation(activate_src(configuration)))
    /\ UNCHANGED <<configuration, entryPoint, tokVars>>

ActivatePart001 ==
    /\ entryPoint = "unnamed/part_001"
    /\ Len(activations) < MaxActivations
    /\ activations' = Append(activations, Activation(activate_part_001(configuration)))
    /\ UNCHANGED <<configuration, entryPoint, tokVars>>

InitExt == tokInit /\ extInitAny

NextExt ==
    \/ \E d \in BOOLEAN, path \in ExecutablePaths : SetConfiguration(d, path)
    \/ ActivateOut
    \/ ActivateSrc
    \/ ActivatePart001

SpecExt == InitExt /\ [][NextExt]_vars

(***************************************************************************)
(* Properties of the scanner with the shipped grammar.                     *)
(***************************************************************************)
StepIndexes == 1..Len(steps)
TextOf(r) == SubSeq(line, r.startOffset, r.endOffset - 1)

TopLevelOrder ==
    <<"comment", "function-declaration", "let-statement", "number", "string",
      "constant", "keyword">>

\* the candidates at a recorded step: at top level those of the list in the
\* order above, inside a region the pop-check and the region's inner patterns
CandidatesAt(st) ==
    Candidates(IF st.stack = <<>>
               THEN Resolve([k \in 1..Len(TopLevelOrder) |-> Include(TopLevelOrder[k])])
               ELSE ActivePatterns(st.stack),
               line, st.from)

\* C1: with the top-level list comment, function-declaration, let-statement,
\* number, string, constant, keyword, at every matched step the selected
\* match is a candidate of the active list starting at or after the cursor,
\* no candidate starts before it, and no candidate starting at the same
\* offset is declared before it.
C1_PriorityOrdering ==
    \A n \in StepIndexes :
      LET st == steps[n]
      IN /\ st.s >= st.from
         /\ \E c \in CandidatesAt(st) :
              /\ c.index = st.index /\ c.kind = st.kind /\ c.rule = st.rule
              /\ c.name = st.name /\ c.m.s = st.s /\ c.m.e = st.e
         /\ \A c \in CandidatesAt(st) :
              \/ c.m.s > st.s
              \/ (c.m.s = st.s /\ c.index >= st.index)

\* a let head won although the function head inside it is declared earlier
C1_Witness ==
    /\ line = OverlapLine
    /\ \E n \in StepIndexes :
         /\ steps[n].stack = <<>>
         /\ steps[n].rule = "let-statement"
         /\ \E c \in CandidatesAt(steps[n]) :
              /\ c.rule = "function-declaration"
              /\ c.index < steps[n].index
              /\ c.m.s > steps[n].s
              /\ c.m.s < steps[n].e

\* the text that ends a function head and a let head
EndText(rule) == IF rule = "function-declaration" THEN "{" ELSE "="
EndTextAfter(rule, from) == {i \in from..Len(line) : line[i] = EndText(rule)}

\* C2: when the document has ended and every begin-match has been followed
\* by its end-match, the RegionStack is empty; and the end-match of an open
\* function or let head fires on the first line that holds its end text, at
\* the first occurrence.
C2_StackBalance ==
    /\ (phase = "done" /\ unclosed = 0) => regionStack = <<>>
    /\ (/\ phase \in {"returned", "done"}
        /\ entryStack # <<>>
        /\ entryStack[Len(entryStack)] \in {"function-declaration", "let-statement"}
        /\ EndTextAfter(entryStack[Len(entryStack)], 1) # {}) =>
         /\ steps # <<>>
         /\ steps[1].kind = "end"
         /\ steps[1].rule = entryStack[Len(entryStack)]
         /\ steps[1].s = Min(EndTextAfter(entryStack[Len(entryStack)], 1))

\* a document whose second line closed the region its first line opened
C2_Witness ==
    /\ phase = "done"
    /\ unclosed = 0
    /\ lineNo = 2
    /\ entryStack # <<>>
    /\ regionStack = <<>>
    /\ \E n \in StepIndexes : steps[n].kind = "end"

\* C3: every matched step starts at or after the cursor, consumes at least
\* one character and leaves the cursor at its end, so the steps of a line
\* are at most as many as its characters and the scan of the line ends.
C3_Progress ==
    /\ Len(steps) <= Len(line)
    /\ cursor <= Len(line) + 1
    /\ \A n \in StepIndexes :
         /\ steps[n].s >= steps[n].from
         /\ steps[n].e > steps[n].s
         /\ steps[n].e > steps[n].from
         /\ IF n < Len(steps) THEN steps[n + 1].from = steps[n].e
            ELSE cursor = steps[n].e
    /\ phase = "scanning" => ENABLED (SimpleMatchStep \/ BeginStep \/ EndStep \/ ReturnLine)

\* a line entered inside a region that closed it and opened the next one
C3_Witness ==
    /\ phase = "returned"
    /\ entryStack # <<>>
    /\ Len(steps) >= 2
    /\ {steps[n].kind : n \in StepIndexes} = {"end", "begin"}

LetForms ==
    { LetLine,
      <<"l", "e", "t", " ", "t", " ", "x", "=">>,
      <<"l", "e", "t", " ", "t", " ", "x", " ", "=">> }

\* C4: a line `let <ident> <ident> =` scanned from an empty RegionStack
\* fires the let-statement begin-match at the start of the line, emits the
\* ranges of `let` (keyword.other.let.bau), the type (entity.name.type.bau)
\* and the variable (variable.name.bau), pushes the let-statement region,
\* and pops it at the `=`: the returned RegionStack is empty.
C4_LetStatement ==
    (phase = "returned" /\ entryStack = <<>> /\ line \in LetForms) =>
      /\ Len(steps) = 2
      /\ steps[1].kind = "begin" /\ steps[1].rule = "let-statement"
      /\ steps[1].s = 1 /\ steps[1].stack = <<>>
      /\ [k \in 1..Len(scopedRanges) |-> scopedRanges[k].scopeName]
           = <<"keyword.other.let.bau", "entity.name.type.bau", "variable.name.bau">>
      /\ TextOf(scopedRanges[1]) = <<"l", "e", "t">>
      /\ scopedRanges[2].startOffset = 5
      /\ TextOf(scopedRanges[2]) \in {<<"i", "n", "t">>, <<"t">>}
      /\ TextOf(scopedRanges[3]) = <<"x">>
      /\ steps[2].kind = "end" /\ steps[2].rule = "let-statement"
      /\ steps[2].stack = <<"let-statement">>
      /\ steps[2].e = Len(line) + 1 /\ line[steps[2].s] = "="
      /\ regionStack = <<>>

\* `let int x =` has been scanned from the empty stack
C4_Witness ==
    /\ phase = "returned"
    /\ entryStack = <<>>
    /\ line = LetLine
    /\ Len(scopedRanges) = 3

\* C5 as stated: no scanLine call both pushes and pops a region, so no
\* end-match follows a begin-match among the steps of one line.
C5_EndOnLaterLineOnly ==
    \A n \in StepIndexes : \A n2 \in StepIndexes :
      ~(n < n2 /\ steps[n].kind = "begin" /\ steps[n2].kind = "end")

\* C5 amended: the end of a region is also looked for in the rest of the
\* line of its begin-match.  When the end text (`{`, `=`) of a function or
\* let head appears after the begin-match on the same line, the next step of
\* that scanLine call is the end-match at its first occurrence and the
\* region is popped; when it does not, the begin-match is the last step of
\* the line and the region is on the returned RegionStack.  A region pushed
\* on a line and not popped by a later step of the line is on the stack
\* scanLine returns.
C5_EndOnSameLine ==
    phase = "returned" =>
      \A n \in StepIndexes :
        steps[n].kind = "begin" =>
          /\ steps[n].rule \in {"function-declaration", "let-statement"} =>
               IF EndTextAfter(steps[n].rule, steps[n].e) # {}
               THEN /\ n < Len(steps)
                    /\ steps[n + 1].kind = "end"
                    /\ steps[n + 1].rule = steps[n].rule
                    /\ steps[n + 1].s = Min(EndTextAfter(steps[n].rule, steps[n].e))
               ELSE /\ n = Len(steps)
                    /\ regionStack = <<steps[n].rule>>
          /\ (\A n2 \in StepIndexes : n2 > n => steps[n2].kind # "end") =>
               (regionStack # <<>> /\ regionStack[Len(regionStack)] = steps[n].rule)

\* `fn main() -> int {` pushed the function head and popped it at the `{`
C5_Witness ==
    /\ phase = "returned"
    /\ line = FnLine
    /\ entryStack = <<>>
    /\ Len(steps) = 2
    /\ steps[1].kind = "begin" /\ steps[2].kind = "end"
    /\ regionStack = <<>>

\* C6: no range has the scope keyword.operator.bau, and `true && false`
\* gets exactly two ranges, constant.language.bau over `true` and `false`.
C6_OperatorUnclassified ==
    /\ \A k \in 1..Len(scopedRanges) :
         scopedRanges[k].scopeName # "keyword.operator.bau"
    /\ (phase = "returned" /\ entryStack = <<>> /\ line = BoolLine) =>
         scopedRanges =
           << [startOffset |-> 1, endOffset |-> 5, scopeName |-> "constant.language.bau"],
              [startOffset |-> 9, endOffset |-> 14, scopeName |-> "constant.language.bau"] >>

\* `true&&false`, where the operator expression would match, has been scanned
C6_Witness ==
    /\ phase = "returned"
    /\ entryStack = <<>>
    /\ line = OperatorLine
    /\ operator_match(line, 5) # NoMatch
    /\ Len(scopedRanges) = 2

\* C7: every activation starts a client exactly when
\* bau.disableLanguageServer is false.
C7_Toggle ==
    \A k \in 1..Len(activations) :
      (activations[k].client # NoClient) <=> ~activations[k].disabled

TopLevelScopes ==
    {"comment.line.bau", "constant.numeric.bau", "constant.language.bau",
     "keyword.control.bau", "keyword.other.fn.bau", "entity.name.function.bau",
     "entity.name.type.bau", "keyword.other.let.bau", "variable.name.bau"}

EndNowhere(rule) ==
    \A i \in 1..Len(line) : Regex(repository(rule).end, line, i) = NoMatch

\* C8: when a line is scanned with a non-empty RegionStack and the end of
\* the top region matches nowhere on it, the returned stack is the input
\* stack, nothing is pushed or popped and no range of a top-level pattern
\* is produced; the same holds when the document ends there.
C8_OpenRegionKeepsLine ==
    (/\ phase \in {"returned", "done"}
     /\ lineNo > 0
     /\ entryStack # <<>>
     /\ EndNowhere(entryStack[Len(entryStack)])) =>
      /\ regionStack = entryStack
      /\ \A n \in StepIndexes : steps[n].kind = "match" /\ steps[n].stack = entryStack
      /\ \A k \in 1..Len(scopedRanges) : scopedRanges[k].scopeName \notin TopLevelScopes

\* a line with a comment and no `{` scanned inside an open function head
C8_Witness ==
    /\ phase = "returned"
    /\ entryStack = <<"function-declaration">>
    /\ \E i \in 1..Len(line) : comment_match(line, i) # NoMatch
    /\ EndNowhere("function-declaration")
    /\ scopedRanges = <<>>

\* C9 as stated: every entry of the RegionStack is a function-declaration or
\* a let-statement region.
C9_TwoConstructs ==
    \A k \in 1..Len(regionStack) :
      regionStack[k] \in {"function-declaration", "let-statement"}

\* C9 amended: the grammar has three begin/end constructs, function
\* declarations, let-bindings and double-quoted strings.  Every entry of the
\* RegionStack is one of the three, every begin-match is the text `fn`, `let`
\* or `"` of one of them, and comment, number, constant and keyword never
\* push a region.
C9_ThreeConstructs ==
    /\ \A k \in 1..Len(regionStack) :
         regionStack[k] \in {"function-declaration", "let-statement", "string"}
    /\ \A n \in StepIndexes :
         steps[n].kind = "begin" =>
           \/ steps[n].rule = "function-declaration"
                /\ StartsWith(line, steps[n].s, <<"f", "n">>)
           \/ steps[n].rule = "let-statement"
                /\ StartsWith(line, steps[n].s, <<"l", "e", "t">>)
           \/ steps[n].rule = "string"
                /\ StartsWith(line, steps[n].s, <<"\"">>)
    /\ \A n \in StepIndexes :
         steps[n].name \in {"comment.line.bau", "constant.numeric.bau",
                            "constant.language.bau", "keyword.control.bau"} =>
           /\ steps[n].kind = "match"
           /\ (IF n < Len(steps) THEN steps[n + 1].stack ELSE regionStack)
                = steps[n].stack

\* a string is open, and a comment was matched on its line before it
C9_Witness ==
    /\ regionStack = <<"string">>
    /\ \E n \in StepIndexes : steps[n].kind = "begin" /\ steps[n].rule = "string"
    /\ \E n \in StepIndexes : steps[n].kind = "match"

\* C10: regions never nest: the RegionStack never holds more than one
\* entry, and every begin-match fires with the stack empty.
C10_NoNesting ==
    /\ Len(regionStack) <= 1
    /\ \A n \in StepIndexes : steps[n].kind = "begin" => steps[n].stack = <<>>

\* a let head is open and the line holding a string quote left it alone
C10_Witness ==
    /\ phase = "returned"
    /\ entryStack = <<"let-statement">>
    /\ regionStack = <<"let-statement">>
    /\ \E i \in 1..Len(line) : string_begin(line, i) # NoMatch

====
